---- MODULE Spec2Model ----
(***************************************************************************)
(* QServerCtrl: chat commands start and stop a cloud-hosted game server,   *)
(* and a watchdog thread stops it when nobody is online.                     *)
(*                                                                         *)
(* The model follows src/qserverctrl/__main__.py and                       *)
(* src/qserverctrl/server.py for ONE configured CloudServiceController     *)
(* (the fleet of src/config.example.py).  Every thread of the program is a *)
(* process with a program counter named after the source line it is about  *)
(* to execute: one thread per inbound /ctrl message (QQBot.on_message) and *)
(* one StoppableThread per watchdog (CloudServiceController.pool_status).  *)
(* A step is one remote call (DescribeInstances, StartInstances,           *)
(* StopInstances, one occupancy probe) or one access to the shared         *)
(* attribute poll_status_thread, together with the thread-local code       *)
(* around it.  The code takes no lock anywhere, so steps of different      *)
(* threads interleave freely.  sleep() is a scheduling point: there is no  *)
(* clock in the model.                                                     *)
(*                                                                         *)
(* The cloud (Tencent CVM) is the environment: an accepted StartInstances  *)
(* or StopInstances puts the instance in STARTING / STOPPING with the      *)
(* latest operation OPERATING, and the operation later ends SUCCESSFUL or  *)
(* FAILED; a request against an instance in any other state is refused     *)
(* with an SDK exception.  The occupancy probe (mcstatus) answers a player *)
(* count only while the instance is RUNNING and may fail at any time.      *)
(***************************************************************************)
EXTENDS Integers, Sequences, FiniteSets, TLC

\* ------------------------------------------------------------------ bounds
\* Number of /ctrl messages handled (one command thread each).
MaxCmds == 2
\* Number of StoppableThread objects the program may create.
MaxWds == 2
\* Number of start()/stop() calls the sequential caller of SpecApi makes.
MaxCalls == 2

\* ------------------------------------------------------- program constants
\* poll_latest_operation(max_retry=50)
max_retry == 50
\* CloudServiceController(port=25565)
port == 25565
\* CloudServiceController(name="server1"): the one configured server.
name == "alpha"
\* QQBot(qq_group=12345678)
qq_group == 12345678

\* PublicIpAddresses[0] of the instance, as the cloud reports it.
PublicIp == "1.2.3.4"
\* Player counts the occupancy probe may answer.
Players == {0, 5}
\* The probe raised an exception instead (mcstatus: timeout, refused, DNS).
ProbeError == -1

Cmds == 1 .. MaxCmds
Wds == (MaxCmds + 1) .. (MaxCmds + MaxWds)
Threads == Cmds \cup Wds
\* poll_status_thread = None
NoThread == 0

\* Inbound chat events: msg["message_type"], msg["group_id"] and
\* msg["message"], the last given by its tokens, msg["message"].split(" ").
Texts ==
    { <<"/ctrl">>, <<"/ctrl", "list">>, <<"/ctrl", "help">>,
      <<"/ctrl", "bogus">>, <<"/ctrl", "bogus", "x">>, <<"/ctrl", "start">>,
      <<"/ctrl", "start", "alpha">>, <<"/ctrl", "stop", "alpha">>,
      <<"/ctrl", "start", "ghost">>, <<"/ctrl", "stop", "ghost">>,
      <<"hello">> }
Inbound ==
    [message_type : {"group"}, group_id : {qq_group}, tokens : Texts]
    \cup [message_type : {"private"}, group_id : {qq_group},
          tokens : {<<"/ctrl", "list">>}]
    \cup [message_type : {"group"}, group_id : {qq_group + 1},
          tokens : {<<"/ctrl", "list">>}]

VARIABLES
    InstanceState,          \* InstanceSet[0].InstanceState
    LatestOperationState,   \* InstanceSet[0].LatestOperationState
    poll_status_thread,     \* CloudServiceController.poll_status_thread
    stop_event,             \* StoppableThread._stop_event, per watchdog
    pc,                     \* where each thread is
    msg,                    \* handle_command's argument, split
    site,                   \* line of pool_status that called self.stop()
    ret,                    \* value returned by start() / stop(), as a tuple:
                            \* <<"None">>, <<"True">>, <<"False">>, <<ip, port>>
    err,                    \* exception raised in the thread
    readings,               \* players.online readings of a watchdog in the
                            \* current round of its loop, oldest first,
                            \* while the round still depends on them
    remote,                 \* provider start()/stop() calls a thread has made
                            \* in the controller call it is running
    replies,                \* BOT.send_message calls of a command thread
    api,                    \* SpecApi: the calls of the sequential caller
    retries                 \* SpecPoll: describe_instance calls made by the
                            \* poll_latest_operation loop of a thread

vars == <<InstanceState, LatestOperationState, poll_status_thread, stop_event,
          pc, msg, site, ret, err, readings, remote, replies, api, retries>>

cloud == <<InstanceState, LatestOperationState>>
watchdog == <<site, readings>>
chat == <<msg, replies, api>>

\* ------------------------------------------- TencentCloudServiceProvider
\* is_running(): InstanceState == "RUNNING"
is_running == InstanceState = "RUNNING"

\* get_ip(): None unless running
get_ip == IF is_running THEN PublicIp ELSE "None"

\* get_play_address(): f"{get_ip()}:{port}"
get_play_address == <<get_ip, port>>

\* poll_latest_operation with a budget of one round more than max_retry
poll_step_one_more(k) ==
    IF LatestOperationState = "SUCCESSFUL" THEN "True"
    ELSE IF LatestOperationState = "FAILED" THEN "False"
    ELSE IF k >= max_retry THEN "False"
    ELSE "again"

\* poll_latest_operation, round k of for _ in range(max_retry) (k = 0 ..
\* max_retry - 1): "True", "False", or "again" (sleep and loop); the loop
\* falls through to return False after the last round.
poll_step(k) ==
    IF LatestOperationState = "SUCCESSFUL" THEN "True"
    ELSE IF LatestOperationState = "FAILED" THEN "False"
    ELSE IF k + 1 >= max_retry THEN "False"
    ELSE "again"

\* poll_latest_operation(): what the call can return in the current state of
\* the cloud, from whichever round of its loop the thread is in.  A round
\* that answers "again" changes nothing but the round number, which the
\* state does not hold: without a clock, any number of rounds fits between
\* two steps of the other threads.
poll_latest_operation ==
    {poll_step(k) : k \in 0 .. (max_retry - 1)} \ {"again"}

\* The exception of thread t propagates: a command thread has no handler and
\* dies; in pool_status the call at line 98 is inside the try of lines 88-100
\* (handled at line 101), the call at line 110 is inside the handler itself.
propagate(t) ==
    IF t \in Wds /\ site[t] = 98 THEN "pool_103" ELSE "crashed"

\* ------------------------------------------------------------------ Init
\* CloudServiceController.__init__: a watchdog is started iff the instance
\* is running when the configuration script builds the controller.
Init ==
    /\ InstanceState \in {"STOPPED", "RUNNING"}
    /\ LatestOperationState = "SUCCESSFUL"
    /\ poll_status_thread = IF is_running THEN MaxCmds + 1 ELSE NoThread
    /\ stop_event = [w \in Wds |-> FALSE]
    /\ pc = [t \in Threads |->
                IF t = MaxCmds + 1 /\ is_running THEN "pool_89" ELSE "unborn"]
    /\ msg = [c \in Cmds |-> <<>>]
    /\ site = [w \in Wds |-> 0]
    /\ ret = [t \in Threads |-> <<>>]
    /\ err = [t \in Threads |-> "none"]
    /\ readings = [w \in Wds |-> <<>>]
    /\ remote = [t \in Threads |-> 0]
    /\ replies = [c \in Cmds |-> <<>>]
    /\ api = <<>>
    /\ retries = [t \in Threads |-> 0]

\* ------------------------------------------------------------------ QQBot
\* str.startswith("/ctrl"), for a text whose first token is the whole prefix
startswith_ctrl(tokens) == tokens[1] = "/ctrl"

HelpText == <<"Available commands:", "/ctrl list", "/ctrl start <name>",
              "/ctrl stop <name>">>

\* handle_command, with MainController.start / stop taking the first
\* controller of the fleet whatever name the command gives
handle_command_any_name(command) ==
    LET help == IF Len(command) # 3 THEN <<HelpText>> ELSE <<>>
        out(p, r, e) == [pc |-> p, replies |-> help \o r, err |-> e]
    IN  IF Len(command) < 2 THEN out("crashed", <<>>, "IndexError")
        ELSE IF command[2] = "list" THEN out("list_171", <<>>, "none")
        ELSE IF command[2] \in {"start", "stop"} THEN
            IF Len(command) < 3 THEN out("crashed", <<>>, "IndexError")
            ELSE IF command[2] = "start"
                 THEN out("mstart_130", <<>>, "none")
                 ELSE out("mstop_151", <<>>, "none")
        ELSE IF command[2] = "help" THEN out("done", <<HelpText>>, "none")
        ELSE out("done", <<>>, "none")

\* handle_command, lines 219-229, up to the first remote call of the
\* MainController method it dispatches to: where the thread stands then, what
\* it has sent and the exception it has raised.  command[1] and command[2]
\* raise IndexError when the message has too few tokens.
handle_command(command) ==
    LET help == IF Len(command) # 3 THEN <<HelpText>> ELSE <<>>
        out(p, r, e) == [pc |-> p, replies |-> help \o r, err |-> e]
    IN  IF Len(command) < 2 THEN out("crashed", <<>>, "IndexError")
        ELSE IF command[2] = "list" THEN out("list_171", <<>>, "none")
        ELSE IF command[2] \in {"start", "stop"} THEN
            IF Len(command) < 3 THEN out("crashed", <<>>, "IndexError")
            ELSE IF command[3] # name
                 THEN out("done", << <<"No such server.">> >>, "none")
            ELSE IF command[2] = "start"
                 THEN out("mstart_130", <<>>, "none")
                 ELSE out("mstop_151", <<>>, "none")
        ELSE IF command[2] = "help" THEN out("done", <<HelpText>>, "none")
        ELSE out("done", <<>>, "none")

\* on_message: a group message of the configured group that starts with
\* /ctrl gets a thread of its own running handle_command; anything else is
\* dropped.  Threads are numbered in the order they are created.  The new
\* thread's code before its first remote call touches nothing shared and is
\* part of this step.
on_message(m) ==
    /\ \E c \in Cmds :
        /\ pc[c] = "unborn"
        /\ \A d \in Cmds : d < c => pc[d] # "unborn"
        /\ IF /\ m.message_type = "group"
              /\ m.group_id = qq_group
              /\ startswith_ctrl(m.tokens)
           THEN LET h == handle_command(m.tokens)
                IN  /\ pc' = [pc EXCEPT ![c] = h.pc]
                    /\ msg' = [msg EXCEPT ![c] = m.tokens]
                    /\ replies' = [replies EXCEPT ![c] = h.replies]
                    /\ err' = [err EXCEPT ![c] = h.err]
           ELSE UNCHANGED <<pc, msg, replies, err>>
    /\ UNCHANGED <<cloud, poll_status_thread, stop_event, watchdog, ret,
                   remote, api>>
    /\ UNCHANGED retries

\* ---------------------------------------------------------- MainController
\* list_server, line 171, run by a dispatcher that handles one command at a
\* time: it waits while another command is inside a provider call
list_server_171_one_at_a_time(c) ==
    /\ pc[c] = "list_171"
    /\ \A d \in Cmds \ {c} :
          pc[d] \notin {"pstart_68", "pstart_72", "pstart_poll",
                        "pstop_77", "pstop_83", "pstop_poll"}
    /\ IF is_running
       THEN /\ pc' = [pc EXCEPT ![c] = "list_172"]
            /\ UNCHANGED replies
       ELSE /\ pc' = [pc EXCEPT ![c] = "done"]
            /\ replies' = [replies EXCEPT
                              ![c] = Append(@, <<"list", name, "stopped">>)]
    /\ UNCHANGED <<cloud, poll_status_thread, stop_event, watchdog, ret, err,
                   remote, msg, api>>
    /\ UNCHANGED retries

\* list_server, line 171: controller.is_running()
list_server_171(c) ==
    /\ pc[c] = "list_171"
    /\ IF is_running
       THEN /\ pc' = [pc EXCEPT ![c] = "list_172"]
            /\ UNCHANGED replies
       ELSE /\ pc' = [pc EXCEPT ![c] = "done"]
            /\ replies' = [replies EXCEPT
                              ![c] = Append(@, <<"list", name, "stopped">>)]
    /\ UNCHANGED <<cloud, poll_status_thread, stop_event, watchdog, ret, err,
                   remote, msg, api>>
    /\ UNCHANGED retries

\* list_server, lines 172-177: get_play_address() and the send
list_server_172(c) ==
    /\ pc[c] = "list_172"
    /\ pc' = [pc EXCEPT ![c] = "done"]
    /\ replies' = [replies EXCEPT
          ![c] = Append(@, <<"list", name, "running at", get_play_address>>)]
    /\ UNCHANGED <<cloud, poll_status_thread, stop_event, watchdog, ret, err,
                   remote, msg, api>>
    /\ UNCHANGED retries

\* start, lines 130-132: for a server already running a string is RETURNED
\* (nothing is sent); otherwise controller.start() is called.
main_start_130(c) ==
    /\ pc[c] = "mstart_130"
    /\ pc' = [pc EXCEPT ![c] = IF is_running THEN "done" ELSE "start_58"]
    /\ UNCHANGED <<cloud, poll_status_thread, stop_event, watchdog, ret, err,
                   remote, chat>>
    /\ UNCHANGED retries

\* start, lines 133-139: the reply for controller.start()'s result
main_start_133(c) ==
    /\ pc[c] = "start_ret"
    /\ pc' = [pc EXCEPT ![c] = "done"]
    /\ replies' = [replies EXCEPT ![c] = Append(@,
          IF ret[c] = <<"None">> THEN <<"Failed to start", name>>
          ELSE <<"The server is started at", ret[c]>>)]
    /\ ret' = [ret EXCEPT ![c] = <<>>]
    /\ remote' = [remote EXCEPT ![c] = 0]
    /\ UNCHANGED <<cloud, poll_status_thread, stop_event, watchdog, err, msg,
                   api>>
    /\ UNCHANGED retries

\* stop, lines 151-155
main_stop_151(c) ==
    /\ pc[c] = "mstop_151"
    /\ IF is_running
       THEN /\ pc' = [pc EXCEPT ![c] = "stop_69"]
            /\ UNCHANGED replies
       ELSE /\ pc' = [pc EXCEPT ![c] = "done"]
            /\ replies' = [replies EXCEPT
                              ![c] = Append(@, <<"Server is not running", name>>)]
    /\ UNCHANGED <<cloud, poll_status_thread, stop_event, watchdog, ret, err,
                   remote, msg, api>>
    /\ UNCHANGED retries

\* stop, lines 155-161: the reply for controller.stop()'s result
main_stop_155(c) ==
    /\ pc[c] = "stop_ret"
    /\ pc' = [pc EXCEPT ![c] = "done"]
    /\ replies' = [replies EXCEPT ![c] = Append(@,
          IF ret[c] = <<"True">> THEN <<"Server stopped", name>>
          ELSE <<"Failed to stop", name>>)]
    /\ ret' = [ret EXCEPT ![c] = <<>>]
    /\ remote' = [remote EXCEPT ![c] = 0]
    /\ UNCHANGED <<cloud, poll_status_thread, stop_event, watchdog, err, msg,
                   api>>
    /\ UNCHANGED retries

\* ------------------------------------------------- CloudServiceController
\* start(), line 58: if self.cloud_service_provider.is_running()
start_58(t) ==
    /\ pc[t] = "start_58"
    /\ pc' = [pc EXCEPT ![t] = IF is_running THEN "start_59" ELSE "pstart_68"]
    /\ UNCHANGED <<cloud, poll_status_thread, stop_event, watchdog, ret, err,
                   remote, chat>>
    /\ UNCHANGED retries

\* start(), line 59, returning get_ip() without the port
start_59_no_port(t) ==
    /\ pc[t] = "start_59"
    /\ pc' = [pc EXCEPT ![t] = "start_ret"]
    /\ ret' = [ret EXCEPT ![t] = <<get_ip>>]
    /\ UNCHANGED <<cloud, poll_status_thread, stop_event, watchdog, err,
                   remote, chat>>
    /\ UNCHANGED retries

\* start(), line 59: return self.get_play_address()
start_59(t) ==
    /\ pc[t] = "start_59"
    /\ pc' = [pc EXCEPT ![t] = "start_ret"]
    /\ ret' = [ret EXCEPT ![t] = get_play_address]
    /\ UNCHANGED <<cloud, poll_status_thread, stop_event, watchdog, err,
                   remote, chat>>
    /\ UNCHANGED retries

\* start(), line 60, into TencentCloudServiceProvider.start, lines 68-69
provider_start_68(t) ==
    /\ pc[t] = "pstart_68"
    /\ remote' = [remote EXCEPT ![t] = @ + 1]
    /\ IF is_running
       THEN /\ pc' = [pc EXCEPT ![t] = propagate(t)]
            /\ err' = [err EXCEPT ![t] = "RuntimeError: already running"]
       ELSE /\ pc' = [pc EXCEPT ![t] = "pstart_72"]
            /\ UNCHANGED err
    /\ UNCHANGED <<cloud, poll_status_thread, stop_event, watchdog, ret, chat>>
    /\ UNCHANGED retries

\* TencentCloudServiceProvider.start, lines 70-72: StartInstances.  The cloud
\* accepts it for a STOPPED instance and refuses it otherwise.
provider_start_72(t) ==
    /\ pc[t] = "pstart_72"
    /\ IF InstanceState = "STOPPED"
       THEN /\ InstanceState' = "STARTING"
            /\ LatestOperationState' = "OPERATING"
            /\ pc' = [pc EXCEPT ![t] = "pstart_poll"]
            /\ UNCHANGED err
       ELSE /\ pc' = [pc EXCEPT ![t] = propagate(t)]
            /\ err' = [err EXCEPT ![t] = "TencentCloudSDKException"]
            /\ UNCHANGED cloud
    /\ UNCHANGED <<poll_status_thread, stop_event, watchdog, ret, remote, chat>>
    /\ retries' = [retries EXCEPT ![t] = 0]

\* TencentCloudServiceProvider.start, line 73, and start(), lines 60-61:
\* poll_latest_operation returns; on False start() returns None.
provider_start_poll(t) ==
    /\ pc[t] = "pstart_poll"
    /\ \E r \in poll_latest_operation :
        /\ pc' = [pc EXCEPT ![t] = IF r = "True" THEN "start_62"
                                   ELSE "start_ret"]
        /\ ret' = [ret EXCEPT ![t] = IF r = "True" THEN @ ELSE <<"None">>]
    /\ UNCHANGED <<cloud, poll_status_thread, stop_event, watchdog, err,
                   remote, chat>>
    /\ UNCHANGED retries

\* start(), lines 62-63: the previous watchdog's stop flag is set
start_62(t) ==
    /\ pc[t] = "start_62"
    /\ pc' = [pc EXCEPT ![t] = "start_64"]
    /\ stop_event' = IF poll_status_thread # NoThread
                     THEN [stop_event EXCEPT ![poll_status_thread] = TRUE]
                     ELSE stop_event
    /\ UNCHANGED <<cloud, poll_status_thread, watchdog, ret, err, remote, chat>>
    /\ UNCHANGED retries

\* start(), lines 64-65: a new StoppableThread replaces the attribute and is
\* started on pool_status.
start_64(t) ==
    /\ pc[t] = "start_64"
    /\ \E w \in Wds :
        /\ pc[w] = "unborn"
        /\ \A v \in Wds : v < w => pc[v] # "unborn"
        /\ poll_status_thread' = w
        /\ pc' = [pc EXCEPT ![t] = "start_66", ![w] = "pool_89"]
    /\ UNCHANGED <<cloud, stop_event, watchdog, ret, err, remote, chat>>
    /\ UNCHANGED retries

\* start(), line 66: return self.get_play_address()
start_66(t) ==
    /\ pc[t] = "start_66"
    /\ pc' = [pc EXCEPT ![t] = "start_ret"]
    /\ ret' = [ret EXCEPT ![t] = get_play_address]
    /\ UNCHANGED <<cloud, poll_status_thread, stop_event, watchdog, err,
                   remote, chat>>
    /\ UNCHANGED retries

\* stop(), lines 69-70, without the early return for a stopped server
stop_69_no_check(t) ==
    /\ pc[t] = "stop_69"
    /\ pc' = [pc EXCEPT ![t] = "stop_71"]
    /\ api' = IF api = <<>> THEN api
              ELSE [api EXCEPT ![Len(api)].stops = TRUE]
    /\ UNCHANGED <<cloud, poll_status_thread, stop_event, watchdog, ret, err,
                   remote, msg, replies>>
    /\ UNCHANGED retries

\* stop(), lines 69-70.  (SpecApi: the caller's open record notes that a
\* stop() ran.)
stop_69(t) ==
    /\ pc[t] = "stop_69"
    /\ IF is_running
       THEN /\ pc' = [pc EXCEPT ![t] = "stop_71"]
            /\ UNCHANGED ret
       ELSE /\ pc' = [pc EXCEPT ![t] = "stop_ret"]
            /\ ret' = [ret EXCEPT ![t] = <<"True">>]
    /\ api' = IF api = <<>> THEN api
              ELSE [api EXCEPT ![Len(api)].stops = TRUE]
    /\ UNCHANGED <<cloud, poll_status_thread, stop_event, watchdog, err,
                   remote, msg, replies>>
    /\ UNCHANGED retries

\* stop(), going from line 69 to line 73 without lines 71-72
stop_71_no_cancel(t) ==
    /\ pc[t] = "stop_71"
    /\ pc' = [pc EXCEPT ![t] = "pstop_77"]
    /\ UNCHANGED <<cloud, poll_status_thread, stop_event, watchdog, ret, err,
                   remote, chat>>
    /\ UNCHANGED retries

\* stop(), lines 71-72: the current watchdog's stop flag is set
stop_71(t) ==
    /\ pc[t] = "stop_71"
    /\ pc' = [pc EXCEPT ![t] = "pstop_77"]
    /\ stop_event' = IF poll_status_thread # NoThread
                     THEN [stop_event EXCEPT ![poll_status_thread] = TRUE]
                     ELSE stop_event
    /\ UNCHANGED <<cloud, poll_status_thread, watchdog, ret, err, remote, chat>>
    /\ UNCHANGED retries

\* stop(), line 73, into TencentCloudServiceProvider.stop, lines 77-78
provider_stop_77(t) ==
    /\ pc[t] = "pstop_77"
    /\ remote' = [remote EXCEPT ![t] = @ + 1]
    /\ IF ~is_running
       THEN /\ pc' = [pc EXCEPT ![t] = propagate(t)]
            /\ err' = [err EXCEPT ![t] = "RuntimeError: already stopped"]
       ELSE /\ pc' = [pc EXCEPT ![t] = "pstop_83"]
            /\ UNCHANGED err
    /\ UNCHANGED <<cloud, poll_status_thread, stop_event, watchdog, ret, chat>>
    /\ UNCHANGED retries

\* TencentCloudServiceProvider.stop, lines 79-83: StopInstances.  The cloud
\* accepts it for a RUNNING instance and refuses it otherwise.
provider_stop_83(t) ==
    /\ pc[t] = "pstop_83"
    /\ IF InstanceState = "RUNNING"
       THEN /\ InstanceState' = "STOPPING"
            /\ LatestOperationState' = "OPERATING"
            /\ pc' = [pc EXCEPT ![t] = "pstop_poll"]
            /\ UNCHANGED err
       ELSE /\ pc' = [pc EXCEPT ![t] = propagate(t)]
            /\ err' = [err EXCEPT ![t] = "TencentCloudSDKException"]
            /\ UNCHANGED cloud
    /\ UNCHANGED <<poll_status_thread, stop_event, watchdog, ret, remote, chat>>
    /\ retries' = [retries EXCEPT ![t] = 0]

\* TencentCloudServiceProvider.stop, line 84, and stop(), line 73:
\* poll_latest_operation returns; its result is stop()'s result.
provider_stop_poll(t) ==
    /\ pc[t] = "pstop_poll"
    /\ \E r \in poll_latest_operation :
        /\ pc' = [pc EXCEPT ![t] = "stop_ret"]
        /\ ret' = [ret EXCEPT ![t] = <<r>>]
    /\ UNCHANGED <<cloud, poll_status_thread, stop_event, watchdog, err,
                   remote, chat>>
    /\ UNCHANGED retries

\* ------------------------------------------------------------ the cloud
\* The pending operation of the instance ends, SUCCESSFUL or FAILED.
cloud_finish ==
    /\ LatestOperationState = "OPERATING"
    /\ \E ok \in BOOLEAN :
        /\ LatestOperationState' = IF ok THEN "SUCCESSFUL" ELSE "FAILED"
        /\ InstanceState' =
              IF InstanceState = "STARTING"
              THEN (IF ok THEN "RUNNING" ELSE "STOPPED")
              ELSE (IF ok THEN "STOPPED" ELSE "RUNNING")
    /\ UNCHANGED <<poll_status_thread, stop_event, pc, watchdog, ret, err,
                   remote, chat>>
    /\ UNCHANGED retries

\* ------------------------------------------------------------ pool_status
\* server.status().players.online: a count while the instance is running,
\* or an exception, which is possible at any time.
probe == IF is_running THEN Players \cup {ProbeError} ELSE {ProbeError}

\* pool_status, lines 89-93: the address is looked up and probed (lines 90
\* and 92); at 0 players the warning is sent and the idle sleep begins.
pool_status_89(w) ==
    /\ pc[w] = "pool_89"
    /\ \E n \in probe :
        /\ readings' = [readings EXCEPT ![w] = IF n > 0 THEN <<>> ELSE <<n>>]
        /\ pc' = [pc EXCEPT ![w] = IF n = ProbeError THEN "pool_103"
                                   ELSE IF n = 0 THEN "pool_94"
                                   ELSE "pool_111"]
    /\ UNCHANGED <<cloud, poll_status_thread, stop_event, site, ret, err,
                   remote, chat>>
    /\ UNCHANGED retries

\* pool_status, lines 94-98, with line 95 stopping at any count
pool_status_94_any_count(w) ==
    /\ pc[w] = "pool_94"
    /\ \E n \in probe :
        /\ readings' = [readings EXCEPT ![w] = Append(@, n)]
        /\ pc' = [pc EXCEPT ![w] = IF n = ProbeError THEN "pool_103"
                                   ELSE "stop_69"]
        /\ site' = [site EXCEPT ![w] = IF n = ProbeError THEN @ ELSE 98]
    /\ UNCHANGED <<cloud, poll_status_thread, stop_event, ret, err, remote,
                   chat>>
    /\ UNCHANGED retries

\* pool_status, lines 94-98: after sleep(self.timeout) the server is probed
\* again; at 0 players self.stop() is called.
pool_status_94(w) ==
    /\ pc[w] = "pool_94"
    /\ \E n \in probe :
        /\ readings' = [readings EXCEPT ![w] = Append(@, n)]
        /\ pc' = [pc EXCEPT ![w] = IF n = ProbeError THEN "pool_103"
                                   ELSE IF n = 0 THEN "stop_69"
                                   ELSE "pool_100"]
        /\ site' = [site EXCEPT ![w] = IF n = 0 THEN 98 ELSE @]
    /\ UNCHANGED <<cloud, poll_status_thread, stop_event, ret, err, remote,
                   chat>>
    /\ UNCHANGED retries

\* pool_status, line 100: the count is read once more for the message
pool_status_100(w) ==
    /\ pc[w] = "pool_100"
    /\ \E n \in probe :
        /\ readings' = [readings EXCEPT
                            ![w] = IF n = ProbeError THEN Append(@, n) ELSE <<>>]
        /\ pc' = [pc EXCEPT ![w] = IF n = ProbeError THEN "pool_103"
                                   ELSE "pool_111"]
    /\ UNCHANGED <<cloud, poll_status_thread, stop_event, site, ret, err,
                   remote, chat>>
    /\ UNCHANGED retries

\* pool_status, lines 101-110, calling self.stop() whatever the second probe
\* answers
pool_status_103_no_grace(w) ==
    /\ pc[w] = "pool_103"
    /\ \E n \in probe :
        /\ readings' = [readings EXCEPT ![w] = Append(@, n)]
        /\ pc' = [pc EXCEPT ![w] = "stop_69"]
        /\ site' = [site EXCEPT ![w] = 110]
    /\ err' = [err EXCEPT ![w] = "none"]
    /\ remote' = [remote EXCEPT ![w] = 0]
    /\ UNCHANGED <<cloud, poll_status_thread, stop_event, ret, chat>>
    /\ UNCHANGED retries

\* pool_status, lines 101-110: after sleep(self.timeout) the server is looked
\* up and probed again; if that fails too, self.stop() is called.
pool_status_103(w) ==
    /\ pc[w] = "pool_103"
    /\ \E n \in probe :
        /\ readings' = [readings EXCEPT ![w] = Append(@, n)]
        /\ pc' = [pc EXCEPT ![w] = IF n = ProbeError THEN "stop_69"
                                   ELSE "pool_111"]
        /\ site' = [site EXCEPT ![w] = IF n = ProbeError THEN 110 ELSE 0]
    /\ err' = [err EXCEPT ![w] = "none"]
    /\ remote' = [remote EXCEPT ![w] = 0]
    /\ UNCHANGED <<cloud, poll_status_thread, stop_event, ret, chat>>
    /\ UNCHANGED retries

\* pool_status, lines 98 and 110: self.stop() has returned
pool_status_stop_ret(w) ==
    /\ pc[w] = "stop_ret"
    /\ pc' = [pc EXCEPT ![w] = "pool_111"]
    /\ site' = [site EXCEPT ![w] = 0]
    /\ ret' = [ret EXCEPT ![w] = <<>>]
    /\ remote' = [remote EXCEPT ![w] = 0]
    /\ readings' = [readings EXCEPT ![w] = <<>>]
    /\ UNCHANGED <<cloud, poll_status_thread, stop_event, err, chat>>
    /\ UNCHANGED retries

\* pool_status, lines 111-113: the flag of the thread that the attribute
\* poll_status_thread names NOW is read; if it is clear the loop sleeps 5 s
\* and goes round.
pool_status_111(w) ==
    /\ pc[w] = "pool_111"
    /\ pc' = [pc EXCEPT ![w] = IF stop_event[poll_status_thread]
                               THEN "done" ELSE "pool_89"]
    /\ readings' = [readings EXCEPT ![w] = <<>>]
    /\ UNCHANGED <<cloud, poll_status_thread, stop_event, site, ret, err,
                   remote, chat>>
    /\ UNCHANGED retries

\* ------------------------------------------------------------------ Next
Next ==
    \/ \E m \in Inbound : on_message(m)
    \/ \E c \in Cmds : list_server_171(c)
    \/ \E c \in Cmds : list_server_172(c)
    \/ \E c \in Cmds : main_start_130(c)
    \/ \E c \in Cmds : main_start_133(c)
    \/ \E c \in Cmds : main_stop_151(c)
    \/ \E c \in Cmds : main_stop_155(c)
    \/ \E t \in Threads : start_58(t)
    \/ \E t \in Threads : start_59(t)
    \/ \E t \in Threads : provider_start_68(t)
    \/ \E t \in Threads : provider_start_72(t)
    \/ \E t \in Threads : provider_start_poll(t)
    \/ \E t \in Threads : start_62(t)
    \/ \E t \in Threads : start_64(t)
    \/ \E t \in Threads : start_66(t)
    \/ \E t \in Threads : stop_69(t)
    \/ \E t \in Threads : stop_71(t)
    \/ \E t \in Threads : provider_stop_77(t)
    \/ \E t \in Threads : provider_stop_83(t)
    \/ \E t \in Threads : provider_stop_poll(t)
    \/ cloud_finish
    \/ \E w \in Wds : pool_status_89(w)
    \/ \E w \in Wds : pool_status_94(w)
    \/ \E w \in Wds : pool_status_100(w)
    \/ \E w \in Wds : pool_status_103(w)
    \/ \E w \in Wds : pool_status_stop_ret(w)
    \/ \E w \in Wds : pool_status_111(w)

Spec == Init /\ [][Next]_vars

\* ------------------------------------------------------------ SpecApi
\* A sequential caller of the controller: one thread that calls start() and
\* stop() of the CloudServiceController directly, one call after the other,
\* while the watchdogs and the cloud run as in Spec.  api holds one record per
\* call: the method, what it returned, how many provider calls it made, and
\* whether some stop() was running at any time from this call to the next.
Caller == CHOOSE c \in Cmds : \A d \in Cmds : c <= d

in_stop(t) ==
    pc[t] \in {"stop_69", "stop_71", "pstop_77", "pstop_83", "pstop_poll",
               "stop_ret"}

api_call(op) ==
    /\ pc[Caller] = "unborn"
    /\ Len(api) < MaxCalls
    /\ pc' = [pc EXCEPT ![Caller] = IF op = "start" THEN "start_58"
                                    ELSE "stop_69"]
    /\ api' = Append(api, [op |-> op, ret |-> <<>>, remote |-> 0,
                           stops |-> \E w \in Wds : in_stop(w)])
    /\ UNCHANGED <<cloud, poll_status_thread, stop_event, watchdog, ret, err,
                   remote, msg, replies>>
    /\ UNCHANGED retries

api_return ==
    /\ pc[Caller] \in {"start_ret", "stop_ret"}
    /\ pc' = [pc EXCEPT ![Caller] = "unborn"]
    /\ api' = [api EXCEPT ![Len(api)].ret = ret[Caller],
                          ![Len(api)].remote = remote[Caller]]
    /\ ret' = [ret EXCEPT ![Caller] = <<>>]
    /\ remote' = [remote EXCEPT ![Caller] = 0]
    /\ UNCHANGED <<cloud, poll_status_thread, stop_event, watchdog, err, msg,
                   replies>>
    /\ UNCHANGED retries

NextApi ==
    \/ \E op \in {"start", "stop"} : api_call(op)
    \/ api_return
    \/ \E t \in {Caller} \cup Wds : start_58(t)
    \/ \E t \in {Caller} \cup Wds : start_59(t)
    \/ \E t \in {Caller} \cup Wds : provider_start_68(t)
    \/ \E t \in {Caller} \cup Wds : provider_start_72(t)
    \/ \E t \in {Caller} \cup Wds : provider_start_poll(t)
    \/ \E t \in {Caller} \cup Wds : start_62(t)
    \/ \E t \in {Caller} \cup Wds : start_64(t)
    \/ \E t \in {Caller} \cup Wds : start_66(t)
    \/ \E t \in {Caller} \cup Wds : stop_69(t)
    \/ \E t \in {Caller} \cup Wds : stop_71(t)
    \/ \E t \in {Caller} \cup Wds : provider_stop_77(t)
    \/ \E t \in {Caller} \cup Wds : provider_stop_83(t)
    \/ \E t \in {Caller} \cup Wds : provider_stop_poll(t)
    \/ cloud_finish
    \/ \E w \in Wds : pool_status_89(w)
    \/ \E w \in Wds : pool_status_94(w)
    \/ \E w \in Wds : pool_status_100(w)
    \/ \E w \in Wds : pool_status_103(w)
    \/ \E w \in Wds : pool_status_stop_ret(w)
    \/ \E w \in Wds : pool_status_111(w)

SpecApi == Init /\ [][NextApi]_vars

\* ------------------------------------------------------------ SpecPoll
\* The sequential caller of SpecApi and the cloud, the watchdogs asleep, with
\* the loop of poll_latest_operation taken one round at a time: retries[t]
\* counts the describe_instance calls the loop of thread t has made so far,
\* while the thread is in the loop.
polling(t) == pc[t] \in {"pstart_poll", "pstop_poll"}

\* poll_latest_operation, lines 48-55: one round of the loop (describe, test,
\* sleep), and the return, to provider.start() / stop() and from there to
\* start() line 60 / stop() line 73.
poll_latest_operation_round(t) ==
    /\ polling(t)
    /\ LET r == poll_step(retries[t])
       IN  /\ retries' = [retries EXCEPT ![t] = IF r = "again" THEN @ + 1
                                                ELSE 0]
           /\ IF r = "again" THEN UNCHANGED <<pc, ret>>
              ELSE IF pc[t] = "pstart_poll"
              THEN /\ pc' = [pc EXCEPT ![t] = IF r = "True" THEN "start_62"
                                              ELSE "start_ret"]
                   /\ ret' = [ret EXCEPT
                                 ![t] = IF r = "True" THEN @ ELSE <<"None">>]
              ELSE /\ pc' = [pc EXCEPT ![t] = "stop_ret"]
                   /\ ret' = [ret EXCEPT ![t] = <<r>>]
    /\ UNCHANGED <<cloud, poll_status_thread, stop_event, watchdog, err,
                   remote, chat>>

NextPoll ==
    \/ \E op \in {"start", "stop"} : api_call(op)
    \/ api_return
    \/ start_58(Caller)
    \/ start_59(Caller)
    \/ provider_start_68(Caller)
    \/ provider_start_72(Caller)
    \/ poll_latest_operation_round(Caller)
    \/ start_62(Caller)
    \/ start_64(Caller)
    \/ start_66(Caller)
    \/ stop_69(Caller)
    \/ stop_71(Caller)
    \/ provider_stop_77(Caller)
    \/ provider_stop_83(Caller)
    \/ cloud_finish

\* A thread inside poll_latest_operation keeps running: sleep(poll_interval)
\* returns and describe_instance answers.
SpecPoll ==
    /\ Init
    /\ [][NextPoll]_vars
    /\ WF_vars(poll_latest_operation_round(Caller))

\* ================================================================ claims
\* A thread is inside cloud_service_provider.start() or .stop().
in_remote_call(t) ==
    pc[t] \in {"pstart_68", "pstart_72", "pstart_poll",
               "pstop_77", "pstop_83", "pstop_poll"}

\* A watchdog thread has been started and has not ended.
alive(w) == pc[w] \notin {"unborn", "done", "crashed"}

\* The command thread has ended, normally or by an exception.
finished(c) == pc[c] \in {"done", "crashed"}

\* The four forms of the command grammar.
recognized(command) ==
    \/ command \in {<<"/ctrl", "list">>, <<"/ctrl", "help">>}
    \/ Len(command) = 3 /\ command[1] = "/ctrl"
                        /\ command[2] \in {"start", "stop"}

\* C1: at most one thread at a time is inside the provider's start() or
\* stop() for the server, whatever the interleaving of command threads and
\* watchdogs.
C1_OneRemoteCallInFlight ==
    Cardinality({t \in Threads : in_remote_call(t)}) <= 1

\* C2: at most one watchdog is alive at any time, and exactly one when
\* start() has installed a watchdog that nobody has cancelled since and is
\* about to return.
C2_OneWatchdog ==
    /\ Cardinality({w \in Wds : alive(w)}) <= 1
    /\ \A t \in Threads :
         pc[t] = "start_66" /\ ~stop_event[poll_status_thread]
            => Cardinality({w \in Wds : alive(w)}) = 1

\* The watchdog read 0 players before and again after its idle sleep, in the
\* current round of its loop.
zero_twice(w) ==
    Len(readings[w]) >= 2 /\ readings[w][1] = 0 /\ readings[w][2] = 0

\* C3: a watchdog that read 0 players twice calls stop() once (at line 98,
\* never again at line 110) and, when stop() has returned, is flagged to
\* leave its loop.
C3_IdleShutdownOnce ==
    \A w \in Wds :
        zero_twice(w) =>
            /\ site[w] # 110
            /\ pc[w] = "stop_ret" => stop_event[poll_status_thread]

\* C5: when start() returns None no watchdog has been spawned by the call
\* and the instance is not running.
C5_FailedStartLeavesStopped ==
    \A t \in Threads :
        pc[t] = "start_ret" /\ ret[t] = <<"None">> => ~is_running

\* C6: a finished command thread of a recognized command has sent exactly
\* one reply.
C6_OneReply ==
    \A c \in Cmds :
        finished(c) /\ recognized(msg[c]) => Len(replies[c]) = 1

\* C7: a finished command thread of a /ctrl message outside the grammar has
\* sent the help text, and nothing else, and has raised no error.
C7_MalformedGetsHelp ==
    \A c \in Cmds :
        finished(c) /\ ~recognized(msg[c]) =>
            replies[c] = <<HelpText>> /\ err[c] = "none"

\* The address part of a reply that reports the server started or running.
reported_address(r) ==
    IF r[1] = "The server is started at" THEN r[2]
    ELSE IF r[1] = "list" /\ Len(r) = 4 THEN r[4]
    ELSE <<PublicIp, port>>

\* C8: no reply reports the server started or running with an absent
\* address, and a returned address is ip:port only while the instance runs.
C8_AddressIffRunning ==
    \A c \in Cmds : \A i \in 1 .. Len(replies[c]) :
        reported_address(replies[c][i])[1] # "None"

\* C9: the provider's already-in-state error is never raised.
C9_NoAlreadyInState ==
    \A t \in Threads :
        err[t] \notin {"RuntimeError: already running",
                       "RuntimeError: already stopped"}

\* C4: of two start() calls in a row, the first made on a stopped server
\* and successful, with no stop() running at any time from the first call to
\* the second's return, the second makes no remote start call (one in all)
\* and returns the address the first returned.
C4_StartTwice ==
    \A i \in 1 .. (Len(api) - 1) :
        LET a == api[i]
            b == api[i + 1]
        IN  /\ a.op = "start" /\ a.remote = 1 /\ a.ret # <<"None">>
            /\ b.op = "start" /\ b.ret # <<>>
            /\ ~a.stops /\ ~b.stops
            => /\ b.remote = 0
               /\ b.ret = a.ret
               /\ a.ret = <<PublicIp, port>>

\* C4 witness: two such start() calls have returned.
C4_Witness ==
    /\ Len(api) >= 2
    /\ api[1].op = "start" /\ api[1].remote = 1 /\ api[1].ret # <<"None">>
    /\ api[2].op = "start" /\ api[2].ret # <<>>
    /\ ~api[1].stops /\ ~api[2].stops

\* The watchdog read 0 players before its idle sleep and a positive count
\* after it, and has made no further probe in this round.
zero_then_some(w) ==
    Len(readings[w]) = 2 /\ readings[w][1] = 0 /\ readings[w][2] > 0

\* C10: a watchdog that read 0 and then a positive count has not called
\* stop(); it stands at line 100, from where it reaches the end of the round
\* (or the handler of line 101, if the probe of line 100 itself fails), and
\* at the end of the round it goes round again unless its exit flag is set.
C10_IdleCancel ==
    /\ [](\A w \in Wds :
            zero_then_some(w) =>
                pc[w] = "pool_100" /\ site[w] = 0 /\ remote[w] = 0)
    /\ [][\A w \in Wds :
            zero_then_some(w) /\ pc'[w] # pc[w] =>
                \/ pc'[w] = "pool_111" /\ site'[w] = 0
                \/ /\ pc'[w] = "pool_103"
                   /\ readings'[w] = Append(readings[w], ProbeError)]_vars
    /\ [][\A w \in Wds :
            /\ pc[w] = "pool_111"
            /\ pc'[w] # pc[w]
            /\ ~stop_event[poll_status_thread]
            => pc'[w] = "pool_89"]_vars

\* C10 witness: a watchdog has read 0 and then 5.
C10_Witness == \E w \in Wds : readings[w] = <<0, 5>>

\* C11: stop() called on a stopped server returns True, makes no provider
\* call and leaves the cloud and the watchdogs' flags as they are: a server
\* that is stopped when the caller enters stop() is still stopped at the test
\* of line 69, the step of line 69 on a stopped server returns True at once,
\* and a stop() that has returned with the server stopped and no provider
\* call made has returned True.
C11_StopStopped ==
    /\ [](\A t \in Threads :
            pc[t] = "stop_ret" /\ remote[t] = 0 => ret[t] = <<"True">>)
    /\ [][pc[Caller] = "stop_69" /\ InstanceState = "STOPPED"
            /\ pc'[Caller] = pc[Caller]
            => InstanceState' = "STOPPED"]_vars
    /\ [][\A t \in Threads :
            pc[t] = "stop_69" /\ InstanceState = "STOPPED" /\ pc'[t] # pc[t]
            => /\ pc'[t] = "stop_ret"
               /\ ret'[t] = <<"True">>
               /\ remote'[t] = 0
               /\ UNCHANGED <<cloud, stop_event>>]_vars

\* C11 witness: the caller's stop() on a stopped server has returned.
C11_Witness ==
    /\ api # <<>> /\ api[Len(api)].op = "stop"
    /\ pc[Caller] = "stop_ret" /\ remote[Caller] = 0
    /\ InstanceState = "STOPPED"

\* A start or stop command, well formed, for a name the fleet does not have.
unknown_server(command) ==
    /\ Len(command) = 3
    /\ command[2] \in {"start", "stop"}
    /\ command[3] # name

\* C12: a start or stop command for a server that is not in the fleet is
\* answered with "No such server." and nothing else, a reply no command for a
\* server of the fleet ever gets; its thread raises nothing, makes no
\* provider call, and its handling changes neither the cloud nor the
\* watchdog attribute, nor any watchdog's flag or position.
C12_NoSuchServer ==
    /\ [](\A c \in Cmds :
            /\ unknown_server(msg[c]) =>
                 /\ pc[c] = "done"
                 /\ replies[c] = << <<"No such server.">> >>
                 /\ err[c] = "none" /\ remote[c] = 0 /\ ret[c] = <<>>
            /\ ~unknown_server(msg[c]) =>
                 \A i \in 1 .. Len(replies[c]) :
                    replies[c][i] # <<"No such server.">>)
    /\ [][\A c \in Cmds :
            unknown_server(msg'[c]) /\ msg[c] # msg'[c]
            => /\ UNCHANGED <<cloud, poll_status_thread, stop_event, watchdog>>
               /\ \A t \in Threads \ {c} : pc'[t] = pc[t]]_vars

\* C12 witness: "/ctrl stop ghost" has been handled while the server runs
\* under its watchdog.
C12_Witness ==
    \E c \in Cmds :
        /\ msg[c] = <<"/ctrl", "stop", "ghost">> /\ pc[c] = "done"
        /\ is_running /\ \E w \in Wds : alive(w)

\* The step is a round of the poll loop of thread t.
poll_round_taken(t) ==
    polling(t) /\ (pc'[t] # pc[t] \/ retries'[t] # retries[t])

\* The step returns True / False from poll_latest_operation of thread t, seen
\* where provider.start() / stop() hand the value on.
poll_returns_true(t) ==
    \/ pc[t] = "pstart_poll" /\ pc'[t] = "start_62"
    \/ pc[t] = "pstop_poll" /\ pc'[t] = "stop_ret" /\ ret'[t] = <<"True">>

poll_returns_false(t) ==
    \/ pc[t] = "pstart_poll" /\ pc'[t] = "start_ret" /\ ret'[t] = <<"None">>
    \/ pc[t] = "pstop_poll" /\ pc'[t] = "stop_ret" /\ ret'[t] = <<"False">>

\* C13: the poll loop makes at most max_retry (50) describe calls: a round
\* that sees SUCCESSFUL returns True, one that sees FAILED returns False, one
\* that sees the operation pending goes round again while rounds are left
\* and returns False in the last round; and a thread in the loop always
\* leaves it.
C13_PollTerminates ==
    /\ [](retries[Caller] < max_retry)
    /\ [][poll_round_taken(Caller) =>
            IF LatestOperationState = "SUCCESSFUL"
            THEN poll_returns_true(Caller)
            ELSE IF LatestOperationState = "FAILED"
            THEN poll_returns_false(Caller)
            ELSE IF retries[Caller] + 1 < max_retry
            THEN /\ pc'[Caller] = pc[Caller]
                 /\ retries'[Caller] = retries[Caller] + 1
            ELSE poll_returns_false(Caller)]_vars
    /\ (polling(Caller) ~> ~polling(Caller))

\* C13 witness: the loop is about to make its last describe call.
C13_Witness == polling(Caller) /\ retries[Caller] = max_retry - 1

\* The chat event of a "/ctrl list" in the configured group.
ListEvent ==
    [message_type |-> "group", group_id |-> qq_group,
     tokens |-> <<"/ctrl", "list">>]

\* C14: a "/ctrl list" is never held up by another command: while thread
\* slots are left the message is taken and given its thread, each step of
\* that thread (lines 171 and 172) can be taken in every state, whatever the
\* other threads are doing, and its steps lead it through list_server to
\* the end, where the list line has been sent.
C14_ListNotBlocked ==
    /\ []((\E c \in Cmds : pc[c] = "unborn") => ENABLED on_message(ListEvent))
    /\ [](\A c \in Cmds :
            /\ pc[c] = "list_171" => ENABLED list_server_171(c)
            /\ pc[c] = "list_172" => ENABLED list_server_172(c)
            /\ pc[c] = "done" /\ msg[c] = ListEvent.tokens
                 => /\ replies[c] # <<>>
                    /\ replies[c][Len(replies[c])][1] = "list")
    /\ [][\A c \in Cmds :
            /\ pc[c] = "unborn" /\ msg'[c] = ListEvent.tokens
                 => pc'[c] = "list_171"
            /\ pc[c] = "list_171" /\ pc'[c] # pc[c]
                 => pc'[c] \in {"list_172", "done"}
            /\ pc[c] = "list_172" /\ pc'[c] # pc[c] => pc'[c] = "done"]_vars

\* C14 witness: a "/ctrl list" that arrived after a start or stop command
\* has been answered while that command is still inside its provider call.
C14_Witness ==
    \E c, d \in Cmds :
        /\ d < c /\ in_remote_call(d)
        /\ msg[c] = ListEvent.tokens /\ pc[c] = "done"

\* Watchdog w has been cancelled and a later start() has installed another
\* watchdog in its place.
superseded(w) == stop_event[w] /\ poll_status_thread # w

\* C15: a watchdog that has been cancelled, and replaced by the watchdog of
\* a later successful start(), never gets a StopInstances request accepted
\* for the server.
C15_NoStaleStop ==
    [][\A w \in Wds :
        superseded(w) /\ pc[w] = "pstop_83"
        => ~(pc'[w] = "pstop_poll" /\ InstanceState' = "STOPPING")]_vars

\* C16: at the end of each round of its loop (line 111) a watchdog whose own
\* flag has been set leaves the loop, whichever thread the attribute
\* poll_status_thread names by then.
C16_OwnFlagEndsLoop ==
    [][\A w \in Wds :
        pc[w] = "pool_111" /\ stop_event[w] /\ pc'[w] # pc[w]
        => pc'[w] = "done"]_vars

\* Thread t is inside CloudServiceController.start().
in_start(t) ==
    pc[t] \in {"start_58", "start_59", "pstart_68", "pstart_72", "pstart_poll",
               "start_62", "start_64", "start_66", "start_ret"}

\* C17: while the instance is running and no thread is inside start() or
\* stop(), some watchdog is alive with its flag clear.
C17_WatchdogArmed ==
    is_running /\ (\A t \in Threads : ~in_start(t) /\ ~in_stop(t))
    => \E w \in Wds : alive(w) /\ ~stop_event[w]

\* C18: no exception leaves pool_status: no watchdog thread ends by an
\* exception, whatever the probe or stop() raise.
C18_NoEscape == \A w \in Wds : pc[w] # "crashed"

\* The last reading of watchdog w in this round.
last_reading(w) == readings[w][Len(readings[w])]

\* C19: a watchdog in the handler of a failed probe calls stop() (line 110)
\* exactly when the probe after the grace sleep fails too: a stop() called
\* from line 110 follows a failed second probe, a successful second probe
\* takes the watchdog to the end of the round with no stop() called, and
\* the watchdog enters stop() from nowhere but the second zero reading of
\* line 95 and the second failure of line 106.
C19_ProbeGrace ==
    /\ [](\A w \in Wds :
            /\ site[w] = 110 =>
                 readings[w] # <<>> /\ last_reading(w) = ProbeError
            /\ pc[w] = "pool_111" /\ readings[w] # <<>> =>
                 last_reading(w) # ProbeError /\ site[w] = 0 /\ remote[w] = 0)
    /\ [][\A w \in Wds :
            /\ pc[w] = "pool_103" /\ pc'[w] # pc[w] =>
                 /\ Len(readings'[w]) = Len(readings[w]) + 1
                 /\ IF readings'[w][Len(readings'[w])] = ProbeError
                    THEN pc'[w] = "stop_69" /\ site'[w] = 110
                    ELSE /\ pc'[w] = "pool_111" /\ site'[w] = 0
                         /\ UNCHANGED <<cloud, stop_event>>
            /\ pc'[w] = "stop_69" /\ pc[w] # "stop_69" =>
                 \/ pc[w] = "pool_94" /\ site'[w] = 98
                 \/ pc[w] = "pool_103" /\ site'[w] = 110]_vars

\* C19 witness: a probe failed, the probe after the grace sleep answered 5
\* players, and the watchdog is at the end of the round.
C19_Witness ==
    \E w \in Wds :
        pc[w] = "pool_111" /\ readings[w] = <<ProbeError, 5>> /\ site[w] = 0

\* C20: in every execution of stop() that finds the server running, by a
\* command thread or by a watchdog, lines 71-72 set the flag of the watchdog
\* the controller holds and touch nothing of the cloud; provider.stop() is
\* entered only from there, StopInstances is requested only from inside
\* provider.stop(), and a flag once set is never cleared: the cancellation
\* request precedes the remote stop and still stands when it is issued.
C20_CancelBeforeStop ==
    /\ [][\A t \in Threads :
            pc[t] = "stop_71" /\ pc'[t] # pc[t]
            => /\ pc'[t] = "pstop_77"
               /\ poll_status_thread # NoThread
                    => stop_event'[poll_status_thread]
               /\ UNCHANGED <<cloud, poll_status_thread>>]_vars
    /\ [][\A t \in Threads :
            /\ pc'[t] = "pstop_77" /\ pc[t] # pc'[t] => pc[t] = "stop_71"
            /\ pc'[t] = "pstop_83" /\ pc[t] # pc'[t] => pc[t] = "pstop_77"]_vars
    /\ [][InstanceState' = "STOPPING" /\ InstanceState # "STOPPING"
            => \E t \in Threads : pc[t] = "pstop_83" /\ pc'[t] = "pstop_poll"]_vars
    /\ [][\A w \in Wds : stop_event[w] => stop_event'[w]]_vars

\* C20 witness: a stop() has had its StopInstances request accepted while
\* the watchdog the controller holds is alive, with its flag set.
C20_Witness ==
    /\ InstanceState = "STOPPING"
    /\ \E t \in Threads : pc[t] = "pstop_poll"
    /\ \E w \in Wds : w = poll_status_thread /\ alive(w) /\ stop_event[w]

====
